---- MODULE Spec2Model ----
(***************************************************************************)
(* Model of the WhatsApp webhook service: the shared session registry      *)
(* (whatsappclient module), the session events wired in index.js, the      *)
(* GET /api/status route, and the routes of routes/webhook.js: GET /health, *)
(* POST /send, and POST /send-batch with its retry helper                  *)
(* sendMessageWithRetry.                                                   *)
(*                                                                         *)
(* One step of the model is one run of handler code up to its next await   *)
(* (a timer, a media resolution, a session call) or, inside the batch      *)
(* loop, up to the next loop head.                                         *)
(***************************************************************************)
EXTENDS Integers, Sequences, FiniteSets, TLC

(* ---------------------------------------------------------------------- *)
(* Program constants                                                       *)
(* ---------------------------------------------------------------------- *)
MAX_RETRIES == 3
MAX_BATCH_SIZE == 2
MESSAGE_DELAY_MS == 5000
BACKOFF_BASE_MS == 3000
maxInitAttempts == 5

(* ---------------------------------------------------------------------- *)
(* Bounds of the model                                                     *)
(* ---------------------------------------------------------------------- *)
MaxLen == 3
MaxTimers == 1
MaxInitFailures == 1

(* ---------------------------------------------------------------------- *)
(* Values                                                                  *)
(* ---------------------------------------------------------------------- *)
\* An error message is a sequence of fragments; String.includes(marker) is
\* the occurrence of the marker among the fragments.
Includes(message, marker) == \E k \in DOMAIN message : message[k] = marker

\* A thrown value: an Error with a message, or a value without .message.
Err(message) == [hasMessage |-> TRUE, message |-> message]
NoError == [hasMessage |-> FALSE, message |-> <<"null">>]
NoMessageError == [hasMessage |-> FALSE, message |-> <<>>]

NotInitializedError == Err(<<"WhatsApp client", "not fully initialized">>)
WidFactoryError == Err(<<"Evaluation failed:", "WidFactory">>)
UndefinedError == Err(<<"Cannot read properties of", "undefined">>)
InvalidWidError == Err(<<"invalid wid">>)
\* error.message.includes(..) on a thrown value without .message
IncludesTypeError == Err(<<"Cannot read properties of", "undefined", "(reading 'includes')">>)

\* What client.sendMessage may reject with.
SendErrors == {WidFactoryError, UndefinedError, InvalidWidError, NoMessageError}

\* The x-api-key header of a request ("" is an absent header).
Keys == {"", "secret", "wrong"}

\* One element of req.body.messages.  "" and <<>> are the falsy (absent)
\* values of a field; isNull marks the JSON value null.
Item(g, m, t, c, h) ==
    [isNull |-> FALSE, groupId |-> g, message |-> m, mediaType |-> t,
     mediaContent |-> c, html |-> h]
NullItem ==
    [isNull |-> TRUE, groupId |-> "", message |-> "", mediaType |-> "",
     mediaContent |-> <<>>, html |-> ""]
DataUri == <<"data:", "image/jpeg", ";base64,", "AAAA">>
ItemKinds ==
    { NullItem,
      Item("", "hi", "", <<>>, ""),
      Item("g", "", "", <<>>, ""),
      Item("g", "hi", "", <<>>, ""),
      Item("g", "", "", <<>>, "<p>"),
      Item("g", "hi", "base64", DataUri, ""),
      Item("g", "", "url", <<"http://x">>, ""),
      Item("g", "", "gif", <<"AAAA">>, "") }

RECURSIVE SeqsUpTo(_, _)
SeqsUpTo(S, n) ==
    IF n = 0 THEN {<<>>}
    ELSE LET shorter == SeqsUpTo(S, n - 1)
         IN shorter \cup {Append(s, x) : s \in {t \in shorter : Len(t) = n - 1}, x \in S}

\* req.body.messages: a value that is not an array, every array of at most
\* MAX_BATCH_SIZE items, and longer arrays (of text items) up to MaxLen.
Bodies ==
    {[isArray |-> FALSE, items |-> <<>>]}
    \cup {[isArray |-> TRUE, items |-> s] : s \in SeqsUpTo(ItemKinds, MAX_BATCH_SIZE)}
    \cup {[isArray |-> TRUE, items |-> [k \in 1..n |-> Item("g", "hi", "", <<>>, "")]] :
             n \in (MAX_BATCH_SIZE + 1)..MaxLen}

\* A resolved media payload (MessageMedia), or null.
NoMedia == [isNull |-> TRUE, mimetype |-> "", data |-> <<>>]
Media(mimetype, data) == [isNull |-> FALSE, mimetype |-> mimetype, data |-> data]

Terminal == {"sent", "skipped", "failed"}

\* res.status(..).json({success, message, ..})
Response(status, success, message) ==
    [status |-> status, success |-> success, message |-> message]

\* The locals of a /send-batch handler invocation that has not run yet.
NoBatch ==
    [pc |-> "idle", apiKey |-> "", messages |-> [isArray |-> FALSE, items |-> <<>>],
     res |-> <<>>, clientReads |-> 0, successCount |-> 0, failureCount |-> 0,
     outcome |-> <<>>, attempt |-> 0, lastError |-> NoError, backoffs |-> <<>>,
     sends |-> 0, sendError |-> NoError, cooldownWaited |-> 0, i |-> 0,
     media |-> NoMedia, captionText |-> "", starts |-> <<>>, delayWaited |-> 0]

VARIABLES
    \* whatsappclient module and the session object
    whatsappClient, exportedWhatsappClient,
    connected, info, pupPage, pupBrowser, hasRefreshState,
    \* index.js initialisation
    initAttempts, pendingInits,
    \* environment
    API_KEY,
    \* GET /health: the answer and the x-api-key header of the request
    healthStatus, healthKey,
    \* POST /send: the request, its response and the handler's locals
    sendPc, sendKey, sendBody, sendRes, sendMedia, sendReads, sendCalls,
    \* a second invocation of the /send-batch handler, suspended at an await
    parked, parkedFirst,
    \* POST /send-batch: the request, its responses and the handler's locals
    pc, apiKey, messages, res, clientReads,
    successCount, failureCount, i, media, captionText,
    attempt, lastError,
    \* what the handler has logged and called for the items
    outcome, starts, backoffs, sends, delayWaited,
    \* catch (sendError): the error caught, and the cooldown waited for it
    sendError, cooldownWaited

sessionVars ==
    <<whatsappClient, exportedWhatsappClient, connected, info, pupPage,
      pupBrowser, hasRefreshState, initAttempts, pendingInits,
      API_KEY>>
requestVars == <<apiKey, messages, res, clientReads>>
tallyVars == <<successCount, failureCount, outcome>>
retryVars == <<attempt, lastError, backoffs, sends>>
catchVars == <<sendError, cooldownWaited>>
batchVars ==
    <<pc, requestVars, tallyVars, retryVars, catchVars, i, media, captionText,
      starts, delayWaited>>
healthVars == <<healthStatus, healthKey>>
sendVars == <<sendPc, sendKey, sendBody, sendRes, sendMedia, sendReads, sendCalls>>
parkVars == <<parked, parkedFirst>>
otherVars == <<healthVars, sendVars, parkVars>>
vars == <<sessionVars, otherVars, batchVars>>

(* ---------------------------------------------------------------------- *)
(* Initial state: the modules are loaded, index.js has run to its last     *)
(* line (the first initializeClient() is due), no request has arrived.     *)
(* ---------------------------------------------------------------------- *)
Init ==
    /\ whatsappClient = "undefined"
    /\ exportedWhatsappClient = whatsappClient
    /\ connected = FALSE
    /\ info = FALSE
    /\ pupPage = FALSE
    /\ pupBrowser = FALSE
    /\ hasRefreshState \in BOOLEAN
    /\ initAttempts = 0
    /\ pendingInits = 1
    /\ API_KEY \in {"", "secret"}
    /\ healthStatus = "none"
    /\ healthKey = ""
    /\ sendPc = "idle"
    /\ sendKey = ""
    /\ sendBody = Item("", "", "", <<>>, "")
    /\ sendRes = <<>>
    /\ sendMedia = NoMedia
    /\ sendReads = 0
    /\ sendCalls = 0
    /\ parked = NoBatch
    /\ parkedFirst = FALSE
    /\ pc = "idle"
    /\ apiKey = ""
    /\ messages = [isArray |-> FALSE, items |-> <<>>]
    /\ res = <<>>
    /\ clientReads = 0
    /\ successCount = 0
    /\ failureCount = 0
    /\ i = 0
    /\ media = NoMedia
    /\ captionText = ""
    /\ attempt = 0
    /\ lastError = NoError
    /\ outcome = <<>>
    /\ starts = <<>>
    /\ backoffs = <<>>
    /\ sends = 0
    /\ delayWaited = 0
    /\ sendError = NoError
    /\ cooldownWaited = 0

(* ---------------------------------------------------------------------- *)
(* whatsappclient module                                                   *)
(* ---------------------------------------------------------------------- *)
\* setWhatsAppClient(client): assigns the module variable; the value that
\* module.exports captured under the key whatsappClient is not touched.
setWhatsAppClient(client) ==
    /\ whatsappClient' = client
    /\ UNCHANGED exportedWhatsappClient

getWhatsAppClient == whatsappClient

(* ---------------------------------------------------------------------- *)
(* Session events and initialisation (index.js)                            *)
(* ---------------------------------------------------------------------- *)
\* initializeClient() runs (the call at the end of index.js or a timer that
\* fired) and client.initialize() resolves (the browser and the page are up,
\* initAttempts is reset) or rejects (a retry timer is set).  At most
\* MaxInitFailures rejections in a row are explored.
initializeClient(resolves) ==
    /\ pendingInits > 0
    /\ IF initAttempts >= maxInitAttempts
       THEN /\ pendingInits' = pendingInits - 1
            /\ UNCHANGED <<initAttempts, pupPage, pupBrowser>>
       ELSE IF resolves
       THEN /\ pendingInits' = pendingInits - 1
            /\ initAttempts' = 0
            /\ pupPage' = TRUE
            /\ pupBrowser' = TRUE
       ELSE /\ initAttempts < MaxInitFailures
            /\ initAttempts' = initAttempts + 1
            /\ pendingInits' = (pendingInits - 1) + 1
            /\ UNCHANGED <<pupPage, pupBrowser>>
    /\ UNCHANGED <<whatsappClient, exportedWhatsappClient, connected, info,
                   hasRefreshState, API_KEY, otherVars, batchVars>>

\* client.on('ready'): the session has a live connection and its info.
OnReady ==
    /\ pupPage /\ pupBrowser /\ ~connected
    /\ connected' = TRUE
    /\ info' = TRUE
    /\ setWhatsAppClient("client")
    /\ UNCHANGED <<pupPage, pupBrowser, hasRefreshState, initAttempts,
                   pendingInits, API_KEY, otherVars,
                   batchVars>>

\* client.on('disconnected'): the connection is lost (the library may or may
\* not have torn the browser down); the handler only sets a reconnect timer.
OnDisconnected ==
    /\ connected
    /\ pendingInits < MaxTimers
    /\ connected' = FALSE
    /\ \E torn \in BOOLEAN :
          /\ pupPage' = (pupPage /\ ~torn)
          /\ pupBrowser' = (pupBrowser /\ ~torn)
    /\ pendingInits' = pendingInits + 1
    /\ UNCHANGED <<whatsappClient, exportedWhatsappClient, info,
                   hasRefreshState, initAttempts, API_KEY,
                   otherVars, batchVars>>

\* client.on('browser_disconnect'): the browser is gone; the handler only
\* sets a restart timer.
OnBrowserDisconnect ==
    /\ pupBrowser
    /\ pendingInits < MaxTimers
    /\ connected' = FALSE
    /\ pupPage' = FALSE
    /\ pupBrowser' = FALSE
    /\ pendingInits' = pendingInits + 1
    /\ UNCHANGED <<whatsappClient, exportedWhatsappClient, info,
                   hasRefreshState, initAttempts, API_KEY,
                   otherVars, batchVars>>

(* ---------------------------------------------------------------------- *)
(* GET /health                                                             *)
(* ---------------------------------------------------------------------- *)
\* The status computed from the whatsappClient binding imported at line 4.
HealthStatus ==
    IF exportedWhatsappClient # "undefined" /\ info THEN "ready" ELSE "initializing"

\* A health request is answered (the route has no apiKeyAuth).
Health(key) ==
    /\ healthStatus = "none"
    /\ healthKey' = key
    /\ healthStatus' = HealthStatus
    /\ UNCHANGED <<sessionVars, sendVars, parkVars, batchVars>>

\* The caller has read the answer.
HealthRead ==
    /\ healthStatus # "none"
    /\ healthStatus' = "none"
    /\ UNCHANGED <<healthKey, sessionVars, sendVars, parkVars, batchVars>>

(* ---------------------------------------------------------------------- *)
(* GET /api/status                                                         *)
(* ---------------------------------------------------------------------- *)
\* The status code of the answer: 200 when getWhatsAppClient() is truthy.
StatusCode == IF getWhatsAppClient # "undefined" THEN 200 ELSE 503

(* ---------------------------------------------------------------------- *)
(* POST /send-batch: middleware, validation, acceptance                    *)
(* ---------------------------------------------------------------------- *)
\* Mutation of apiKeyAuth: only the presence of the header is tested.
apiKeyAuthPresenceOnly(key) == key # ""

\* apiKeyAuth: TRUE when next() is called.  An unset API_KEY is "".
apiKeyAuth(key) == ~(key = "" \/ key # API_KEY)

\* Mutation of BatchRejection: the size check is missing.
BatchRejectionNoMax(body) ==
    IF ~body.isArray THEN 400
    ELSE IF Len(body.items) = 0 THEN 400
    ELSE 0

\* The 400 checks on req.body.messages; 0 when all of them pass.
BatchRejection(body) ==
    IF ~body.isArray THEN 400
    ELSE IF Len(body.items) = 0 THEN 400
    ELSE IF Len(body.items) > MAX_BATCH_SIZE THEN 400
    ELSE 0

\* Mutation of AcceptedResponse: no response is sent before the loop.
AcceptedResponseNone(r) == r

\* res.status(202).json(..) before the loop.
AcceptedResponse(r) == Append(r, 202)

\* A request arrives while no batch is being processed: middleware, the
\* validation, the readiness check and the 202.
SendBatch(key, body) ==
    /\ pc = "idle"
    /\ apiKey' = key
    /\ messages' = body
    /\ successCount' = 0
    /\ failureCount' = 0
    /\ i' = 0
    /\ media' = NoMedia
    /\ captionText' = ""
    /\ attempt' = 0
    /\ lastError' = NoError
    /\ outcome' = [k \in 1..Len(body.items) |-> "pending"]
    /\ starts' = [k \in 1..Len(body.items) |-> 0]
    /\ backoffs' = <<>>
    /\ sends' = 0
    /\ delayWaited' = 0
    /\ sendError' = NoError
    /\ cooldownWaited' = 0
    /\ IF ~apiKeyAuth(key)
       THEN /\ res' = <<401>>
            /\ clientReads' = 0
            /\ pc' = "idle"
       ELSE IF BatchRejection(body) # 0
       THEN /\ res' = <<BatchRejection(body)>>
            /\ clientReads' = 0
            /\ pc' = "idle"
       ELSE IF getWhatsAppClient = "undefined"
       THEN /\ res' = <<503>>
            /\ clientReads' = 1
            /\ pc' = "idle"
       ELSE /\ res' = AcceptedResponse(<<>>)
            /\ clientReads' = 1
            /\ pc' = "loop"
    /\ UNCHANGED <<sessionVars, otherVars>>

(* ---------------------------------------------------------------------- *)
(* POST /send-batch: the processing loop                                   *)
(* ---------------------------------------------------------------------- *)
\* Mutation of NextItemIndex: the loop index does not advance.
NextItemIndexStuck(n) == n

\* for (...; i++)
NextItemIndex(n) == n + 1

\* MIME types that the class [A-Za-z-+/]+ of the data-URI pattern matches.
PatternMimeTypes == {"image/jpeg", "image/png", "image/svg+xml"}

\* The base64 branch: a data-URI that matches the pattern gives its MIME type
\* and its payload, anything else image/png and the content as it is.
ResolveBase64(content) ==
    IF /\ Len(content) > 0
       /\ content[1] = "data:"
       /\ Len(content) = 4
       /\ content[2] \in PatternMimeTypes
       /\ content[3] = ";base64,"
       /\ content[4] # ""
    THEN Media(content[2], <<content[4]>>)
    ELSE Media("image/png", content)

\* The branch the loop body takes for an item, in the order of its tests.
ItemBranch(m) ==
    IF m.isNull THEN "throw"
    ELSE IF m.groupId = "" THEN "noGroupId"
    ELSE IF m.message = "" /\ m.mediaContent = <<>> /\ m.html = "" THEN "noContent"
    ELSE IF m.html # "" THEN "html"
    ELSE IF m.mediaContent # <<>> /\ m.mediaType # ""
         THEN IF m.mediaType = "base64" THEN "base64"
              ELSE IF m.mediaType = "url" THEN "url"
              ELSE "invalidMediaType"
    ELSE "text"

\* The tail of the loop body after the send: the inter-message delay when
\* this is not the last item, else release of media and the next iteration.
AfterSend ==
    IF i < Len(messages.items) - 1
    THEN /\ pc' = "delay"
         /\ UNCHANGED <<i, media>>
    ELSE /\ pc' = "loop"
         /\ i' = NextItemIndex(i)
         /\ media' = NoMedia

\* Mutation of ItemContinue: the item is passed over without being counted.
ItemContinueUncounted(oc) ==
    /\ outcome' = [outcome EXCEPT ![i + 1] = oc]
    /\ delayWaited' = 0
    /\ pc' = "loop"
    /\ i' = NextItemIndex(i)
    /\ media' = NoMedia
    /\ UNCHANGED <<successCount, failureCount>>

\* failureCount++; continue;  (oc is what the log line records)
ItemContinue(oc) ==
    /\ failureCount' = failureCount + 1
    /\ outcome' = [outcome EXCEPT ![i + 1] = oc]
    /\ delayWaited' = 0
    /\ pc' = "loop"
    /\ i' = NextItemIndex(i)
    /\ media' = NoMedia
    /\ UNCHANGED successCount

\* Mutation of CatchMessageError: the exception leaves the loop.
CatchMessageErrorAborts ==
    /\ failureCount' = failureCount + 1
    /\ outcome' = [outcome EXCEPT ![i + 1] = "failed"]
    /\ delayWaited' = 0
    /\ pc' = "fatal"
    /\ media' = NoMedia
    /\ UNCHANGED <<successCount, i>>

\* catch (messageError): failureCount++, log, next iteration.
CatchMessageError ==
    /\ failureCount' = failureCount + 1
    /\ outcome' = [outcome EXCEPT ![i + 1] = "failed"]
    /\ delayWaited' = 0
    /\ pc' = "loop"
    /\ i' = NextItemIndex(i)
    /\ media' = NoMedia
    /\ UNCHANGED successCount

\* Mutation of CatchSendError: the cooldown follows every transient message.
CatchSendErrorAnyTransient(error) ==
    /\ sendError' = error
    /\ failureCount' = failureCount + 1
    /\ outcome' = [outcome EXCEPT ![i + 1] = "failed"]
    /\ delayWaited' = 0
    /\ UNCHANGED successCount
    /\ IF \/ Includes(error.message, "WidFactory")
          \/ Includes(error.message, "undefined")
          \/ Includes(error.message, "not fully initialized")
       THEN /\ pc' = "cooldown"
            /\ UNCHANGED <<i, media>>
       ELSE AfterSend

\* catch (sendError) around sendMessageWithRetry, then the tail of the body.
CatchSendError(error) ==
    /\ sendError' = error
    /\ failureCount' = failureCount + 1
    /\ outcome' = [outcome EXCEPT ![i + 1] = "failed"]
    /\ delayWaited' = 0
    /\ UNCHANGED successCount
    /\ IF Includes(error.message, "WidFactory")
       THEN /\ pc' = "cooldown"
            /\ UNCHANGED <<i, media>>
       ELSE AfterSend

\* Loop head: the loop ends (the final tally is logged and the handler
\* returns, which ends the life of its locals), or the next item is taken,
\* validated and, when it needs no awaited resolution, resolved.
LoopStep ==
    /\ pc = "loop"
    /\ IF i >= Len(messages.items)
       THEN /\ pc' = "done"
            /\ attempt' = 0
            /\ lastError' = NoError
            /\ backoffs' = <<>>
            /\ sends' = 0
            /\ captionText' = ""
            /\ delayWaited' = 0
            /\ sendError' = NoError
            /\ cooldownWaited' = 0
            /\ UNCHANGED <<tallyVars, i, media, starts>>
       ELSE LET m == messages.items[i + 1]
                branch == ItemBranch(m)
            IN /\ starts' = [starts EXCEPT ![i + 1] = @ + 1]
               /\ backoffs' = <<>>
               /\ sends' = 0
               /\ lastError' = NoError
               /\ sendError' = NoError
               /\ cooldownWaited' = 0
               /\ captionText' = IF branch \in {"throw", "noGroupId", "noContent"}
                                 THEN "" ELSE m.message
               /\ CASE branch = "throw" ->
                         /\ CatchMessageError
                         /\ attempt' = 0
                    [] branch \in {"noGroupId", "noContent"} ->
                         /\ ItemContinue("skipped")
                         /\ attempt' = 0
                    [] branch = "invalidMediaType" ->
                         /\ ItemContinue("failed")
                         /\ attempt' = 0
                    [] branch = "html" ->
                         /\ pc' = "htmlToImage"
                         /\ outcome' = [outcome EXCEPT ![i + 1] = "started"]
                         /\ media' = NoMedia
                         /\ attempt' = 0
                         /\ UNCHANGED <<successCount, failureCount, i, delayWaited>>
                    [] branch = "url" ->
                         /\ pc' = "fromUrl"
                         /\ outcome' = [outcome EXCEPT ![i + 1] = "started"]
                         /\ media' = NoMedia
                         /\ attempt' = 0
                         /\ UNCHANGED <<successCount, failureCount, i, delayWaited>>
                    [] branch = "base64" ->
                         /\ pc' = "attempt"
                         /\ outcome' = [outcome EXCEPT ![i + 1] = "started"]
                         /\ media' = ResolveBase64(m.mediaContent)
                         /\ attempt' = 1
                         /\ UNCHANGED <<successCount, failureCount, i, delayWaited>>
                    [] branch = "text" ->
                         /\ pc' = "attempt"
                         /\ outcome' = [outcome EXCEPT ![i + 1] = "started"]
                         /\ media' = NoMedia
                         /\ attempt' = 1
                         /\ UNCHANGED <<successCount, failureCount, i, delayWaited>>
    /\ UNCHANGED <<requestVars, sessionVars, otherVars>>

\* Mutation of HtmlToImageReturns: a failed conversion falls through to the
\* send, without media.
HtmlToImageReturnsFallsThrough ==
    /\ pc = "htmlToImage"
    /\ \E ok \in BOOLEAN :
          /\ media' = IF ok THEN Media("image/png", <<"file">>) ELSE NoMedia
          /\ pc' = "attempt"
          /\ attempt' = 1
          /\ UNCHANGED <<tallyVars, i, delayWaited>>
    /\ UNCHANGED <<requestVars, lastError, backoffs, sends, catchVars,
                   captionText, starts, sessionVars, otherVars>>

\* await htmlToImage(..) and MessageMedia.fromFilePath(..) return or throw.
HtmlToImageReturns ==
    /\ pc = "htmlToImage"
    /\ \E ok \in BOOLEAN :
          IF ok
          THEN /\ media' = Media("image/png", <<"file">>)
               /\ pc' = "attempt"
               /\ attempt' = 1
               /\ UNCHANGED <<tallyVars, i, delayWaited>>
          ELSE /\ ItemContinue("failed")
               /\ UNCHANGED attempt
    /\ UNCHANGED <<requestVars, lastError, backoffs, sends, catchVars,
                   captionText, starts, sessionVars, otherVars>>

\* await MessageMedia.fromUrl(..) returns or throws.
FromUrlReturns ==
    /\ pc = "fromUrl"
    /\ \E ok \in BOOLEAN :
          IF ok
          THEN /\ media' = Media("image/jpeg", <<"fetched">>)
               /\ pc' = "attempt"
               /\ attempt' = 1
               /\ UNCHANGED <<tallyVars, i, delayWaited>>
          ELSE /\ ItemContinue("failed")
               /\ UNCHANGED attempt
    /\ UNCHANGED <<requestVars, lastError, backoffs, sends, catchVars,
                   captionText, starts, sessionVars, otherVars>>

(* ---------------------------------------------------------------------- *)
(* sendMessageWithRetry                                                    *)
(* ---------------------------------------------------------------------- *)
\* Mutation of IsRetryable: every error is retried.
IsRetryableAlways(error) == TRUE

\* The message test of the catch block: retry or break.
IsRetryable(error) ==
    \/ Includes(error.message, "WidFactory")
    \/ Includes(error.message, "undefined")
    \/ Includes(error.message, "not fully initialized")

RECURSIVE Pow2(_)
Pow2(n) == IF n = 0 THEN 1 ELSE 2 * Pow2(n - 1)

\* Mutation of RetryDelay: linear instead of exponential backoff.
RetryDelayLinear(n) == 2 * n * BACKOFF_BASE_MS

\* Math.pow(2, attempt) * 3000
RetryDelay(n) == Pow2(n) * BACKOFF_BASE_MS

\* catch (error) of one attempt: record it, then back off, or leave the
\* function by throwing (break and throw lastError; or the TypeError of
\* error.message.includes on a value without a message).
CatchAttempt(error) ==
    /\ lastError' = error
    /\ UNCHANGED <<attempt, sends>>
    /\ IF ~error.hasMessage
       THEN /\ CatchSendError(IncludesTypeError)
            /\ UNCHANGED backoffs
       ELSE IF IsRetryable(error)
       THEN /\ backoffs' = Append(backoffs, RetryDelay(attempt))
            /\ pc' = "backoff"
            /\ UNCHANGED <<tallyVars, sendError, i, media, delayWaited>>
       ELSE /\ CatchSendError(error)
            /\ UNCHANGED backoffs

\* Mutation of AttemptStep: the precheck is missing.
AttemptStepNoPrecheck ==
    /\ pc = "attempt"
    /\ pc' = "settle"
    /\ UNCHANGED <<tallyVars, retryVars, sendError, i, media, delayWaited>>
    /\ UNCHANGED <<requestVars, cooldownWaited, captionText, starts, sessionVars,
                   otherVars>>

\* Top of an attempt: the readiness precheck, then the settle delay.
AttemptStep ==
    /\ pc = "attempt"
    /\ IF ~pupPage \/ ~pupBrowser
       THEN CatchAttempt(NotInitializedError)
       ELSE /\ pc' = "settle"
            /\ UNCHANGED <<tallyVars, retryVars, sendError, i, media, delayWaited>>
    /\ UNCHANGED <<requestVars, cooldownWaited, captionText, starts, sessionVars,
                   otherVars>>

\* The settle delay has passed: client.sendMessage is invoked.
SettleDone ==
    /\ pc = "settle"
    /\ pc' = "sendMessage"
    /\ sends' = sends + 1
    /\ UNCHANGED <<requestVars, tallyVars, attempt, lastError, catchVars,
                   backoffs, i, media, captionText, starts, delayWaited,
                   sessionVars, otherVars>>

\* Mutation of SendMessageResolves: successCount++ is missing.
SendMessageResolvesUncounted ==
    /\ pc = "sendMessage"
    /\ successCount' = successCount
    /\ outcome' = [outcome EXCEPT ![i + 1] = "sent"]
    /\ delayWaited' = 0
    /\ AfterSend
    /\ UNCHANGED <<requestVars, failureCount, retryVars, catchVars, captionText,
                   starts, sessionVars, otherVars>>

\* client.sendMessage resolves: sendMessageWithRetry returns, successCount++.
SendMessageResolves ==
    /\ pc = "sendMessage"
    /\ successCount' = successCount + 1
    /\ outcome' = [outcome EXCEPT ![i + 1] = "sent"]
    /\ delayWaited' = 0
    /\ AfterSend
    /\ UNCHANGED <<requestVars, failureCount, retryVars, catchVars, captionText,
                   starts, sessionVars, otherVars>>

\* client.sendMessage rejects.
SendMessageRejects(error) ==
    /\ pc = "sendMessage"
    /\ CatchAttempt(error)
    /\ UNCHANGED <<requestVars, cooldownWaited, captionText, starts, sessionVars,
                   otherVars>>

\* Mutation of NextAttempt: a new error is thrown after the last attempt.
NextAttemptThrowsGeneric ==
    /\ attempt' = attempt + 1
    /\ IF attempt + 1 <= MAX_RETRIES
       THEN /\ pc' = "attempt"
            /\ UNCHANGED <<tallyVars, sendError, i, media, delayWaited>>
       ELSE CatchSendError(Err(<<"all attempts failed">>))

\* for (...; attempt++): the next attempt, or throw lastError after the last.
NextAttempt ==
    /\ attempt' = attempt + 1
    /\ IF attempt + 1 <= MAX_RETRIES
       THEN /\ pc' = "attempt"
            /\ UNCHANGED <<tallyVars, sendError, i, media, delayWaited>>
       ELSE CatchSendError(lastError)

\* The backoff has passed: refresh the session state if it has the hook.
BackoffDone ==
    /\ pc = "backoff"
    /\ IF hasRefreshState
       THEN /\ pc' = "refreshState"
            /\ UNCHANGED <<tallyVars, attempt, sendError, i, media, delayWaited>>
       ELSE NextAttempt
    /\ UNCHANGED <<requestVars, lastError, backoffs, sends, cooldownWaited,
                   captionText, starts, sessionVars, otherVars>>

\* Mutation of RefreshStateReturns: an error of the hook leaves the function.
RefreshStateReturnsPropagates ==
    /\ pc = "refreshState"
    /\ \E ok \in BOOLEAN :
          IF ok THEN NextAttempt
          ELSE /\ CatchSendError(Err(<<"refreshState failed">>))
               /\ UNCHANGED attempt
    /\ UNCHANGED <<requestVars, lastError, backoffs, sends, cooldownWaited,
                   captionText, starts, sessionVars, otherVars>>

\* await client.refreshState() returns or throws (caught and logged).
RefreshStateReturns ==
    /\ pc = "refreshState"
    /\ \E ok \in BOOLEAN : NextAttempt
    /\ UNCHANGED <<requestVars, lastError, backoffs, sends, cooldownWaited,
                   captionText, starts, sessionVars, otherVars>>

\* MESSAGE_DELAY_MS * 2
COOLDOWN_MS == MESSAGE_DELAY_MS * 2

\* The cooldown after a WidFactory failure has passed.
CooldownDone ==
    /\ pc = "cooldown"
    /\ cooldownWaited' = cooldownWaited + COOLDOWN_MS
    /\ AfterSend
    /\ UNCHANGED <<requestVars, tallyVars, retryVars, sendError, captionText,
                   starts, delayWaited, sessionVars, otherVars>>

\* The inter-message delay has passed: release media, next iteration.
DelayDone ==
    /\ pc = "delay"
    /\ delayWaited' = delayWaited + MESSAGE_DELAY_MS
    /\ media' = NoMedia
    /\ i' = NextItemIndex(i)
    /\ pc' = "loop"
    /\ UNCHANGED <<requestVars, tallyVars, retryVars, catchVars, captionText,
                   starts, sessionVars, otherVars>>

(* ---------------------------------------------------------------------- *)
(* POST /send                                                              *)
(* ---------------------------------------------------------------------- *)
\* req.body of POST /send: the fields of one message.
SendBodies ==
    (ItemKinds \ {NullItem})
    \cup { Item("g", "hi", "base64", <<"AAAA">>, ""),
           Item("g", "hi", "base64", <<"data:", "video/mp4", ";base64,", "AAAA">>, "") }

\* The branch the handler takes for a body, in the order of its tests (the
\* readiness check comes after the two 400 checks).
SendBranch(b) ==
    IF b.groupId = "" THEN "noGroupId"
    ELSE IF b.message = "" /\ b.mediaContent = <<>> /\ b.html = "" THEN "noContent"
    ELSE IF b.html # "" THEN "html"
    ELSE IF b.mediaContent # <<>> /\ b.mediaType # ""
         THEN IF b.mediaType = "base64" THEN "base64"
              ELSE IF b.mediaType = "url" THEN "url"
              ELSE "invalidMediaType"
    ELSE "text"

\* mediaContent.startsWith('data:') and the pattern matches with two groups.
SendDataUriMatches(content) ==
    /\ Len(content) = 4
    /\ content[1] = "data:"
    /\ content[2] \in PatternMimeTypes
    /\ content[3] = ";base64,"
    /\ content[4] # ""

\* The handler answers and returns.
SendResponds(response) ==
    /\ sendRes' = <<response>>
    /\ sendPc' = "idle"

\* The handler reaches the send: whatsappClient.sendMessage is called with
\* the media, if any, and the caption.
SendCallsSendMessage(m) ==
    /\ sendMedia' = m
    /\ sendPc' = "sendMessage"
    /\ sendCalls' = sendCalls + 1
    /\ UNCHANGED sendRes

\* A request arrives: middleware, the 400 checks, the readiness check and
\* the resolution of the content up to the first await.  In the base64
\* branch a matching data-URI makes the handler assign to its const
\* mediaContent, which throws a TypeError into the catch of the branch.
Send(key, body) ==
    /\ sendPc = "idle"
    /\ sendKey' = key
    /\ sendBody' = body
    /\ IF ~apiKeyAuth(key)
       THEN /\ SendResponds(Response(401, FALSE, "Unauthorized: Invalid API Key"))
            /\ sendReads' = 0
            /\ sendCalls' = 0
            /\ sendMedia' = NoMedia
       ELSE IF SendBranch(body) = "noGroupId"
       THEN /\ SendResponds(Response(400, FALSE, "Group ID is required"))
            /\ sendReads' = 0
            /\ sendCalls' = 0
            /\ sendMedia' = NoMedia
       ELSE IF SendBranch(body) = "noContent"
       THEN /\ SendResponds(Response(400, FALSE, "At least one of message, mediaContent, or html must be provided"))
            /\ sendReads' = 0
            /\ sendCalls' = 0
            /\ sendMedia' = NoMedia
       ELSE IF getWhatsAppClient = "undefined" \/ ~info
       THEN /\ SendResponds(Response(503, FALSE, "WhatsApp client is not ready yet. Please try again later."))
            /\ sendReads' = 1
            /\ sendCalls' = 0
            /\ sendMedia' = NoMedia
       ELSE /\ sendReads' = 1
            /\ CASE SendBranch(body) = "html" ->
                      /\ sendPc' = "htmlToImage"
                      /\ sendRes' = <<>>
                      /\ sendCalls' = 0
                      /\ sendMedia' = NoMedia
                 [] SendBranch(body) = "url" ->
                      /\ sendPc' = "fromUrl"
                      /\ sendRes' = <<>>
                      /\ sendCalls' = 0
                      /\ sendMedia' = NoMedia
                 [] SendBranch(body) = "invalidMediaType" ->
                      /\ SendResponds(Response(400, FALSE, "Invalid mediaType. Supported types: base64, url"))
                      /\ sendCalls' = 0
                      /\ sendMedia' = NoMedia
                 [] SendBranch(body) = "base64" ->
                      IF SendDataUriMatches(body.mediaContent)
                      THEN /\ SendResponds(Response(500, FALSE, "Failed to process media content"))
                           /\ sendCalls' = 0
                           /\ sendMedia' = NoMedia
                      ELSE /\ sendMedia' = Media("image/png", body.mediaContent)
                           /\ sendPc' = "sendMessage"
                           /\ sendCalls' = 1
                           /\ sendRes' = <<>>
                 [] SendBranch(body) = "text" ->
                      /\ sendMedia' = NoMedia
                      /\ sendPc' = "sendMessage"
                      /\ sendCalls' = 1
                      /\ sendRes' = <<>>
    /\ UNCHANGED <<sessionVars, healthVars, parkVars, batchVars>>

\* await htmlToImage(html) and MessageMedia.fromFilePath(..) return or throw.
SendHtmlToImageReturns ==
    /\ sendPc = "htmlToImage"
    /\ \E ok \in BOOLEAN :
          IF ok
          THEN SendCallsSendMessage(Media("image/png", <<"file">>))
          ELSE /\ SendResponds(Response(500, FALSE, "Failed to convert HTML to image"))
               /\ UNCHANGED <<sendMedia, sendCalls>>
    /\ UNCHANGED <<sendKey, sendBody, sendReads, sessionVars, healthVars,
                   parkVars, batchVars>>

\* await MessageMedia.fromUrl(mediaContent) returns or throws.
SendFromUrlReturns ==
    /\ sendPc = "fromUrl"
    /\ \E ok \in BOOLEAN :
          IF ok
          THEN SendCallsSendMessage(Media("image/jpeg", <<"fetched">>))
          ELSE /\ SendResponds(Response(500, FALSE, "Failed to process media content"))
               /\ UNCHANGED <<sendMedia, sendCalls>>
    /\ UNCHANGED <<sendKey, sendBody, sendReads, sessionVars, healthVars,
                   parkVars, batchVars>>

\* await whatsappClient.sendMessage(..) resolves: 200.
SendResolves ==
    /\ sendPc = "sendMessage"
    /\ SendResponds(Response(200, TRUE, "Message sent successfully"))
    /\ UNCHANGED <<sendKey, sendBody, sendMedia, sendReads, sendCalls,
                   sessionVars, healthVars, parkVars, batchVars>>

\* await whatsappClient.sendMessage(..) rejects: the outer catch answers 500.
SendRejects ==
    /\ sendPc = "sendMessage"
    /\ SendResponds(Response(500, FALSE, "Failed to send message"))
    /\ UNCHANGED <<sendKey, sendBody, sendMedia, sendReads, sendCalls,
                   sessionVars, healthVars, parkVars, batchVars>>

SendStep ==
    \/ SendHtmlToImageReturns
    \/ SendFromUrlReturns
    \/ SendResolves
    \/ SendRejects

(* ---------------------------------------------------------------------- *)
(* Two invocations of the /send-batch handler                              *)
(* ---------------------------------------------------------------------- *)
\* The locals of the invocation that is running.
Running ==
    [pc |-> pc, apiKey |-> apiKey, messages |-> messages, res |-> res,
     clientReads |-> clientReads, successCount |-> successCount,
     failureCount |-> failureCount, outcome |-> outcome, attempt |-> attempt,
     lastError |-> lastError, backoffs |-> backoffs, sends |-> sends,
     sendError |-> sendError, cooldownWaited |-> cooldownWaited, i |-> i,
     media |-> media, captionText |-> captionText, starts |-> starts,
     delayWaited |-> delayWaited]

\* Express calls the handler once per request and each invocation has its
\* own locals.  While one invocation is suspended at an await (or has
\* returned, or has not been called yet) the event loop runs the other one:
\* the two exchange places.  parkedFirst tells that the batch of the
\* suspended invocation was accepted, and before the other's.
Switch ==
    /\ pc # "loop"
    /\ parked' = Running
    /\ parkedFirst' = IF res = <<202>> /\ parked.res = <<202>> THEN ~parkedFirst
                      ELSE res = <<202>>
    /\ pc' = parked.pc
    /\ apiKey' = parked.apiKey
    /\ messages' = parked.messages
    /\ res' = parked.res
    /\ clientReads' = parked.clientReads
    /\ successCount' = parked.successCount
    /\ failureCount' = parked.failureCount
    /\ outcome' = parked.outcome
    /\ attempt' = parked.attempt
    /\ lastError' = parked.lastError
    /\ backoffs' = parked.backoffs
    /\ sends' = parked.sends
    /\ sendError' = parked.sendError
    /\ cooldownWaited' = parked.cooldownWaited
    /\ i' = parked.i
    /\ media' = parked.media
    /\ captionText' = parked.captionText
    /\ starts' = parked.starts
    /\ delayWaited' = parked.delayWaited
    /\ UNCHANGED <<sessionVars, healthVars, sendVars>>

(* ---------------------------------------------------------------------- *)
(* Specification                                                           *)
(* ---------------------------------------------------------------------- *)
BatchStep ==
    \/ LoopStep
    \/ HtmlToImageReturns
    \/ FromUrlReturns
    \/ AttemptStep
    \/ SettleDone
    \/ SendMessageResolves
    \/ \E error \in SendErrors : SendMessageRejects(error)
    \/ BackoffDone
    \/ RefreshStateReturns
    \/ CooldownDone
    \/ DelayDone

Next ==
    \/ \E resolves \in BOOLEAN : initializeClient(resolves)
    \/ OnReady
    \/ OnDisconnected
    \/ OnBrowserDisconnect
    \/ \E key \in Keys, body \in Bodies : SendBatch(key, body)
    \/ BatchStep

\* Everything but GET /health.
Spec == Init /\ [][Next]_vars

\* The batch loop keeps running: timers fire and every awaited call returns
\* or throws.
FairSpec == Spec /\ WF_vars(BatchStep)

\* The session, the registry, GET /health and the submission of batches
\* (without the processing of accepted ones).
NextSession ==
    \/ \E resolves \in BOOLEAN : initializeClient(resolves)
    \/ OnReady
    \/ OnDisconnected
    \/ OnBrowserDisconnect
    \/ Health("")
    \/ HealthRead
    \/ \E key \in Keys, body \in Bodies : SendBatch(key, body)

SessionSpec == Init /\ [][NextSession]_vars

\* Batches for the specifications below: a single item of each kind, and two
\* text items.
SmallBodies ==
    {[isArray |-> TRUE, items |-> <<x>>] : x \in ItemKinds}
    \cup {[isArray |-> TRUE, items |-> <<Item("g", "hi", "", <<>>, ""), Item("g", "hi", "", <<>>, "")>>]}

\* Submissions for NextApi: not an array, one text item, too many items.
ApiBodies ==
    { [isArray |-> FALSE, items |-> <<>>],
      [isArray |-> TRUE, items |-> <<Item("g", "hi", "", <<>>, "")>>],
      [isArray |-> TRUE, items |-> [k \in 1..(MAX_BATCH_SIZE + 1) |-> Item("g", "hi", "", <<>>, "")]] }

\* The three routes of the router side by side: the session, GET /health,
\* POST /send, and the submission of batches (without their processing).
NextApi ==
    \/ \E resolves \in BOOLEAN : initializeClient(resolves)
    \/ OnReady
    \/ OnDisconnected
    \/ OnBrowserDisconnect
    \/ \E key \in Keys : Health(key)
    \/ HealthRead
    \/ \E key \in Keys, body \in ApiBodies : SendBatch(key, body)
    \/ \E key \in Keys, body \in SendBodies : Send(key, body)
    \/ SendStep

ApiSpec == Init /\ [][NextApi]_vars

\* Two batches submitted to a session that stays up.
NextTwoBatches ==
    \/ \E resolves \in BOOLEAN : initializeClient(resolves)
    \/ OnReady
    \/ \E body \in SmallBodies : SendBatch("secret", body)
    \/ BatchStep
    \/ Switch

TwoBatchesSpec == Init /\ [][NextTwoBatches]_vars

\* A batch and POST /send requests on a session that stays up.
NextMixed ==
    \/ \E resolves \in BOOLEAN : initializeClient(resolves)
    \/ OnReady
    \/ \E body \in SmallBodies : SendBatch("secret", body)
    \/ BatchStep
    \/ \E body \in SendBodies : Send("secret", body)
    \/ SendStep

MixedSpec == Init /\ [][NextMixed]_vars

\* An item that has mediaContent but neither mediaType nor message nor html.
UntypedMediaItem == Item("g", "", "", <<"AAAA">>, "")

\* The batches of SmallBodies and the batch of one UntypedMediaItem.
OneBatchBodies ==
    SmallBodies \cup {[isArray |-> TRUE, items |-> <<UntypedMediaItem>>]}

\* One batch out of OneBatchBodies, with all the session events.
NextOneBatch ==
    \/ \E resolves \in BOOLEAN : initializeClient(resolves)
    \/ OnReady
    \/ OnDisconnected
    \/ OnBrowserDisconnect
    \/ \E body \in OneBatchBodies : SendBatch("secret", body)
    \/ BatchStep

OneBatchSpec == Init /\ [][NextOneBatch]_vars

(* ---------------------------------------------------------------------- *)
(* Properties                                                              *)
(* ---------------------------------------------------------------------- *)
Items == DOMAIN outcome

\* The item the loop took last (0 before the first).
Cur ==
    IF \E k \in DOMAIN starts : starts[k] > 0
    THEN CHOOSE k \in DOMAIN starts :
            /\ starts[k] > 0
            /\ \A j \in DOMAIN starts : starts[j] > 0 => j <= k
    ELSE 0

InRetry == pc \in {"attempt", "settle", "sendMessage", "backoff", "refreshState"}

HasTransientMarker(error) ==
    /\ error.hasMessage
    /\ \E marker \in {"WidFactory", "undefined", "not fully initialized"} :
          Includes(error.message, marker)

\* C1: the loop takes the items in input order, one at a time: an item is
\* taken only when its predecessor has a terminal outcome, at most one item
\* is in progress, and no item is taken twice.
C1_InOrderOneAtATime ==
    /\ \A k \in Items : starts[k] <= 1
    /\ \A k \in Items : (outcome[k] # "pending") <=> (starts[k] = 1)
    /\ \A k \in Items : (k > 1 /\ starts[k] > 0) => outcome[k - 1] \in Terminal
    /\ Cardinality({k \in Items : outcome[k] = "started"}) <= 1

C1_Witness ==
    \E k \in Items : k > 1 /\ outcome[k] = "started" /\ outcome[k - 1] \in Terminal

\* C2 as stated: succeeded + failed is the number of items with a terminal
\* outcome minus the number of skipped ones (a skipped item is not counted).
C2_SkippedNotCounted ==
    successCount + failureCount =
        Cardinality({k \in Items : outcome[k] \in Terminal})
        - Cardinality({k \in Items : outcome[k] = "skipped"})

\* C2 as amended: a skipped item is counted as failed: succeeded is the number
\* of sent items, failed the number of failed plus skipped items, so that
\* succeeded + failed is the number of items with a terminal outcome.
C2_SkippedCountedAsFailed ==
    /\ successCount = Cardinality({k \in Items : outcome[k] = "sent"})
    /\ failureCount = Cardinality({k \in Items : outcome[k] \in {"failed", "skipped"}})

C2_Witness ==
    /\ \E k \in Items : outcome[k] = "skipped"
    /\ \E k \in Items : outcome[k] = "sent"
    /\ failureCount = 1
    /\ successCount = 1

\* C3: an authenticated submission whose messages value is not an array, is
\* empty or is longer than MAX_BATCH_SIZE gets a 400 and nothing else: no
\* item is taken, nothing is counted, the session handle is not read and
\* nothing is sent.
C3_InvalidBatchRejected ==
    ( /\ res # <<>>
      /\ apiKey # "" /\ apiKey = API_KEY
      /\ \/ ~messages.isArray
         \/ Len(messages.items) = 0
         \/ Len(messages.items) > MAX_BATCH_SIZE )
    => /\ res = <<400>>
       /\ pc = "idle"
       /\ clientReads = 0
       /\ sends = 0
       /\ successCount = 0 /\ failureCount = 0
       /\ \A k \in Items : starts[k] = 0 /\ outcome[k] = "pending"

C3_Witness ==
    /\ res = <<400>>
    /\ messages.isArray
    /\ Len(messages.items) > MAX_BATCH_SIZE
    /\ whatsappClient = "client"

\* C4: there is never a fourth attempt; the backoffs slept are 6000, 12000
\* and 24000 ms in this order; an item is marked failed only after the retry
\* sequence has ended; and an item that failed on a transient error had
\* exactly MAX_RETRIES attempts, each followed by its backoff.
C4_TransientRetriedThreeTimes ==
    /\ InRetry => attempt \in 1..MAX_RETRIES /\ outcome[Cur] = "started"
    /\ sends <= MAX_RETRIES
    /\ Len(backoffs) <= 3
    /\ \A k \in DOMAIN backoffs : backoffs[k] = <<6000, 12000, 24000>>[k]
    /\ (Cur > 0 /\ outcome[Cur] = "failed" /\ HasTransientMarker(lastError))
       => /\ attempt = MAX_RETRIES + 1
          /\ backoffs = <<6000, 12000, 24000>>

C4_Witness ==
    /\ Cur > 0
    /\ outcome[Cur] = "failed"
    /\ lastError = WidFactoryError
    /\ attempt = MAX_RETRIES + 1
    /\ sends = MAX_RETRIES
    /\ backoffs = <<6000, 12000, 24000>>

\* C5: once an attempt has failed with a message without a transient marker
\* the retry sequence is over: the item is failed, no backoff follows that
\* attempt and no further attempt is made (one attempt when it was the first).
C5_PermanentNotRetried ==
    (Cur > 0 /\ lastError.hasMessage /\ ~HasTransientMarker(lastError))
    => /\ ~InRetry
       /\ outcome[Cur] = "failed"
       /\ attempt \in 1..MAX_RETRIES
       /\ Len(backoffs) = attempt - 1
       /\ sends <= attempt
       /\ (backoffs = <<>> => attempt = 1 /\ sends = 1)

C5_Witness ==
    /\ Cur > 0
    /\ outcome[Cur] = "failed"
    /\ lastError = InvalidWidError
    /\ attempt = 1
    /\ sends = 1
    /\ backoffs = <<>>

\* C6: when the loop takes an item that is not the first, the inter-message
\* delay has been waited since the previous item reached its outcome.
C6_DelayBetweenAnyTwoItems ==
    [][(pc = "loop" /\ i >= 1 /\ i < Len(messages.items) /\ starts' # starts)
         => delayWaited >= MESSAGE_DELAY_MS]_vars

\* C7: GET /health answers "ready" exactly when the session is connected, has
\* its info and was registered by the ready event.
C7_HealthReadyIffSessionReady ==
    [][(healthStatus = "none" /\ healthStatus' # "none")
         => ((healthStatus' = "ready")
               <=> (connected /\ info /\ whatsappClient = "client"))]_vars

\* C8: the 202 is sent before any item is taken and stays the only response
\* of the request throughout and after the processing.
C8_AcceptedOnceBeforeProcessing ==
    /\ Len(res) <= 1
    /\ pc # "idle" => res = <<202>>
    /\ \A k \in Items : starts[k] > 0 => res = <<202>>

C8_Witness ==
    /\ pc = "done"
    /\ res = <<202>>
    /\ failureCount > 0
    /\ \E k \in Items : outcome[k] = "failed"

\* C9: an authenticated, well-formed batch that arrives while the session is
\* not connected gets a 503 and is not processed.
C9_NotReadyRejected ==
    [][( /\ pc = "idle"
         /\ ~connected
         /\ <<pc', apiKey', messages', res'>> # <<pc, apiKey, messages, res>>
         /\ apiKey' # "" /\ apiKey' = API_KEY
         /\ messages'.isArray
         /\ Len(messages'.items) \in 1..MAX_BATCH_SIZE )
         => (res' = <<503>> /\ pc' = "idle")]_vars

\* C10: whatever happens to an item, an accepted batch goes on: the loop
\* eventually reaches its final tally with every item at a terminal outcome.
C10_BatchRunsToTheEnd ==
    (pc # "idle") ~> (pc = "done" /\ \A k \in Items : outcome[k] \in Terminal)

C10_Witness ==
    /\ pc = "done"
    /\ Len(messages.items) = 2
    /\ messages.items[1].isNull
    /\ outcome[1] = "failed"
    /\ outcome[2] = "sent"

\* C11: of two accepted batches, no item of the one accepted second is taken
\* before every item of the one accepted first has a terminal outcome.
C11_BatchesNeverInterleave ==
    /\ (parkedFirst /\ \E k \in DOMAIN starts : starts[k] > 0)
       => \A k \in DOMAIN parked.outcome : parked.outcome[k] \in Terminal
    /\ (res = <<202>> /\ ~parkedFirst /\ \E k \in DOMAIN parked.starts : parked.starts[k] > 0)
       => \A k \in Items : outcome[k] \in Terminal

\* The calls of the session's sendMessage that have not returned yet.
SendsInFlight ==
    (IF pc = "sendMessage" THEN 1 ELSE 0)
    + (IF parked.pc = "sendMessage" THEN 1 ELSE 0)
    + (IF sendPc = "sendMessage" THEN 1 ELSE 0)

\* C12: at most one call of the session's sendMessage is in flight, and none
\* is made by the /send handler (every send comes from a batch loop).
C12_OneSendInFlightByBatchLoop ==
    /\ SendsInFlight <= 1
    /\ sendPc # "sendMessage"
    /\ sendCalls = 0

\* C13: a /send or /send-batch request whose x-api-key is absent or is not
\* the configured key (none configured included) is answered 401 with
\* success false and nothing else happens: the session handle is not read, no
\* content is resolved, no item is taken or counted, sendMessage is not
\* called; and a /health request is answered whatever its key.
C13_UnauthorizedRejectedWithoutEffect ==
    /\ (res # <<>> /\ (apiKey = "" \/ apiKey # API_KEY))
       => /\ res = <<401>>
          /\ pc = "idle"
          /\ clientReads = 0
          /\ sends = 0
          /\ successCount = 0 /\ failureCount = 0
          /\ \A k \in Items : starts[k] = 0 /\ outcome[k] = "pending"
    /\ ((sendRes # <<>> \/ sendPc # "idle") /\ (sendKey = "" \/ sendKey # API_KEY))
       => /\ Len(sendRes) = 1
          /\ sendRes[1].status = 401
          /\ sendRes[1].success = FALSE
          /\ sendPc = "idle"
          /\ sendReads = 0
          /\ sendCalls = 0
          /\ sendMedia = NoMedia
    /\ healthStatus # "none" => healthStatus \in {"ready", "initializing"}

C13_Witness ==
    /\ API_KEY = "secret"
    /\ whatsappClient = "client" /\ info
    /\ sendKey = "wrong" /\ sendRes # <<>> /\ sendRes[1].status = 401
    /\ SendBranch(sendBody) = "text"
    /\ apiKey = "" /\ res = <<401>>
    /\ messages.isArray /\ Len(messages.items) = 1
    /\ healthKey = "" /\ healthStatus # "none"

\* C14: the registry holds the session exactly from a ready event to the next
\* disconnect: while the session is not connected getWhatsAppClient() gives
\* no session and GET /api/status answers 503.
C14_RegistryClearedOnDisconnect ==
    /\ connected => getWhatsAppClient = "client"
    /\ ~connected => (getWhatsAppClient = "undefined" /\ StatusCode = 503)

\* C15: on both routes base64 content "data:<mime>;base64,<payload>" becomes
\* media of that MIME type with the payload alone, any other base64 content
\* media of type image/png with the content as it is, and the resolution
\* does not fail.
C15_Base64ResolvesOnBothRoutes ==
    LET Expected(content) ==
            IF Len(content) = 4 /\ content[1] = "data:" /\ content[3] = ";base64,"
            THEN Media(content[2], <<content[4]>>)
            ELSE Media("image/png", content)
    IN /\ (InRetry /\ Cur > 0 /\ ItemBranch(messages.items[Cur]) = "base64")
          => media = Expected(messages.items[Cur].mediaContent)
       /\ (sendReads = 1 /\ SendBranch(sendBody) = "base64")
          => /\ sendPc = "sendMessage" => sendMedia = Expected(sendBody.mediaContent)
             /\ sendRes # <<>> => sendRes[1].message # "Failed to process media content"

\* C16 as stated: the cooldown of 2 * MESSAGE_DELAY_MS is waited after a final
\* failure whose message has any of the transient markers ("WidFactory",
\* "undefined", "not fully initialized"), and after no other failure.
C16_CooldownOnAnyTransient ==
    /\ pc = "cooldown" => HasTransientMarker(sendError)
    /\ (pc \in {"delay", "loop"} /\ sendError # NoError)
       => cooldownWaited = IF HasTransientMarker(sendError) THEN 2 * MESSAGE_DELAY_MS ELSE 0

\* C16 as amended: the cooldown of 2 * MESSAGE_DELAY_MS is waited, once and
\* before the inter-message delay, after a final failure whose message has
\* "WidFactory"; after any other failure, the ones with "undefined" or
\* "not fully initialized" included, and after a success none is waited.
C16_CooldownOnWidFactoryOnly ==
    /\ pc = "cooldown"
       => /\ Cur > 0 /\ outcome[Cur] = "failed"
          /\ Includes(sendError.message, "WidFactory")
          /\ cooldownWaited = 0
    /\ (pc \in {"delay", "loop"} /\ sendError # NoError)
       => cooldownWaited = IF Includes(sendError.message, "WidFactory")
                           THEN 2 * MESSAGE_DELAY_MS ELSE 0
    /\ sendError = NoError => (pc # "cooldown" /\ cooldownWaited = 0)

C16_Witness ==
    /\ pc = "delay"
    /\ sendError = WidFactoryError
    /\ cooldownWaited = 2 * MESSAGE_DELAY_MS
    /\ outcome[Cur] = "failed"

\* C17: an attempt begins with the precheck: when the page or the browser
\* handle is not live the attempt fails with "not fully initialized", which
\* is retryable, without the settle delay and without a send; the settle
\* delay is entered only with both handles live; and an item that failed
\* without any send on that error had exactly MAX_RETRIES attempts, each with
\* its backoff, after which the loop goes on.
C17_PrecheckFailsWithoutSend ==
    [][ /\ (pc = "attempt" /\ pc' # "attempt" /\ ~(pupPage /\ pupBrowser))
           => /\ lastError' = NotInitializedError
              /\ IsRetryable(lastError')
              /\ pc' = "backoff"
              /\ sends' = sends
        /\ (pc # "settle" /\ pc' = "settle") => (pupPage /\ pupBrowser)
        /\ ( /\ Cur' > 0
             /\ outcome'[Cur'] = "failed"
             /\ sends' = 0
             /\ lastError' = NotInitializedError )
           => /\ attempt' = MAX_RETRIES + 1
              /\ backoffs' = <<6000, 12000, 24000>>
              /\ sendError' = NotInitializedError
              /\ pc' \in {"loop", "delay"} ]_vars

C17_Witness ==
    /\ Cur > 0
    /\ outcome[Cur] = "failed"
    /\ sends = 0
    /\ sendError = NotInitializedError
    /\ attempt = MAX_RETRIES + 1
    /\ pc = "delay"

C19_ResolutionFailureFailsOnce ==
    [][ /\ ( \/ (pc \in {"htmlToImage", "fromUrl"} /\ pc' \notin {pc, "attempt"})
             \/ ( /\ pc = "loop"
                  /\ starts' # starts
                  /\ ItemBranch(messages.items[i + 1]) = "invalidMediaType" ) )
           => /\ outcome'[i + 1] = "failed"
              /\ failureCount' = failureCount + 1
              /\ successCount' = successCount
              /\ attempt' = 0
              /\ sends' = 0
              /\ backoffs' = <<>>
              /\ starts'[i + 1] = 1
              /\ pc' = "loop"
              /\ i' = i + 1
        /\ (pc \in {"htmlToImage", "fromUrl"} /\ pc' = "attempt")
           => ~media'.isNull ]_vars

C19_Witness ==
    /\ pc = "loop"
    /\ Cur > 0
    /\ ItemBranch(messages.items[Cur]) \in {"html", "url"}
    /\ outcome[Cur] = "failed"
    /\ attempt = 0
    /\ sends = 0
    /\ failureCount = 1

\* C20: when a backoff has passed the refresh hook is called exactly when the
\* session has one, and it is called nowhere else; however the hook ends
\* (it returns or throws) the sequence goes on with the next attempt number,
\* the recorded error, the sends and the backoffs as they were, and after
\* the last attempt the error reported is the recorded one.
C20_RefreshHookBestEffort ==
    [][ /\ (pc = "backoff" /\ pc' # "backoff")
           => ((pc' = "refreshState") <=> hasRefreshState)
        /\ (pc # "refreshState" /\ pc' = "refreshState") => pc = "backoff"
        /\ (pc = "refreshState" /\ pc' # "refreshState")
           => /\ attempt' = attempt + 1
              /\ lastError' = lastError
              /\ sends' = sends
              /\ backoffs' = backoffs
              /\ IF attempt < MAX_RETRIES
                 THEN pc' = "attempt" /\ outcome' = outcome /\ sendError' = NoError
                 ELSE outcome'[i + 1] = "failed" /\ sendError' = lastError ]_vars

C20_Witness ==
    /\ hasRefreshState
    /\ Cur > 0
    /\ outcome[Cur] = "failed"
    /\ attempt = MAX_RETRIES + 1
    /\ sendError = UndefinedError
    /\ sends = MAX_RETRIES

\* C21: once an item's delivery has ended, sent or failed, the loop holds no
\* resolved media: none during the cooldown, none during the inter-message
\* delay, none while the item has its terminal outcome.
C21_MediaReleasedBeforeWaiting ==
    /\ pc \in {"cooldown", "delay"} => media.isNull
    /\ (Cur > 0 /\ outcome[Cur] \in Terminal) => media.isNull

\* C22: a step of the loop that takes items to a terminal outcome adds their
\* number, at most one, to exactly one of successCount and failureCount, and
\* no other step changes a counter or a terminal outcome; so the sum of the
\* counters is the number of terminal items throughout, and the number of
\* items of the batch at the final tally.
C22_EveryItemCountedOnce ==
    [][ /\ successCount' + failureCount'
             = Cardinality({k \in DOMAIN outcome' : outcome'[k] \in Terminal})
        /\ pc' = "done" => successCount' + failureCount' = Len(messages'.items)
        /\ pc # "idle"
           => /\ successCount' \in {successCount, successCount + 1}
              /\ failureCount' \in {failureCount, failureCount + 1}
              /\ (successCount' + failureCount') - (successCount + failureCount)
                   = Cardinality({k \in Items : outcome[k] \notin Terminal
                                                /\ outcome'[k] \in Terminal})
              /\ \A k \in Items : outcome[k] \in Terminal => outcome'[k] = outcome[k] ]_vars

C22_Witness ==
    /\ pc = "done"
    /\ Len(messages.items) = 2
    /\ ItemBranch(messages.items[1]) = "invalidMediaType"
    /\ ItemBranch(messages.items[2]) = "base64"
    /\ outcome = <<"failed", "sent">>
    /\ successCount = 1
    /\ failureCount = 1

\* C23: client.sendMessage is never called for an item with an empty text
\* and no media.
C23_NeverSendsEmptyPayload ==
    pc = "sendMessage" => (captionText # "" \/ ~media.isNull)

\* C24: the settle delay is spent, and client.sendMessage is called, only
\* with the page and the browser handle live.
C24_HandlesLiveFromPrecheckToSend ==
    [][ /\ pc' = "settle" => (pupPage' /\ pupBrowser')
        /\ sends' = sends + 1 => (pupPage /\ pupBrowser) ]_vars

====
